---- MODULE Spec2Model ----
(***************************************************************************)
(* The Sequence game engine of src/sequence_game.py as a state machine.    *)
(*                                                                         *)
(* The state is the engine object: its GameState (self.state), its         *)
(* move_history, and the argument and return value of the last make_move   *)
(* call.  Pure helpers of the engine are operators that take the GameState *)
(* record as their first argument (the Python methods read self.state).    *)
(* random.shuffle is a choice of one of the deck orders in Games; the      *)
(* caller of make_move first follows the line of play of the chosen game   *)
(* and then plays any move returned by get_valid_moves.                    *)
(*                                                                         *)
(* The move evaluator of src/sequence_bot.py (balanced weights) is a set   *)
(* of operators on the GameState, and SimSpec is the game loop of          *)
(* src/run_simulations.py: two bots play the shuffles of Shuffles, each    *)
(* turn making the move get_move_with_analysis returns.                    *)
(***************************************************************************)
EXTENDS Integers, Sequences, FiniteSets, TLC

VARIABLES
    game,          \* index into Games: the shuffle and the line of play
    state,         \* SequenceGame.state, a GameState record
    move_history,  \* SequenceGame.move_history
    last_call      \* <<>> or <<[move, ok]>>: last make_move argument and result

vars == <<game, state, move_history, last_call>>

(***************************************************************************)
(* Bounds                                                                  *)
(***************************************************************************)
\* Number of make_move calls with freely chosen valid moves after the line.
MaxFreeMoves == 2

(***************************************************************************)
(* Cards, board layout, chip colours                                       *)
(***************************************************************************)
SUITS == <<"S", "H", "D", "C">>
RANKS == <<"A", "2", "3", "4", "5", "6", "7", "8", "9", "10", "Q", "K">>
TWO_EYED_JACKS == {"JD", "JC"}
ONE_EYED_JACKS == {"JS", "JH"}

BOARD_LAYOUT ==
    << <<"XX", "2S", "3S", "4S", "5S", "6S", "7S", "8S", "9S", "XX">>,
       <<"6C", "5C", "4C", "3C", "2C", "AH", "KH", "QH", "10H", "10S">>,
       <<"7C", "AS", "2D", "3D", "4D", "5D", "6D", "7D", "9H", "QS">>,
       <<"8C", "KS", "6C", "5C", "4C", "3C", "2C", "8D", "8H", "KS">>,
       <<"9C", "QS", "7C", "6H", "5H", "4H", "AH", "9D", "7H", "AS">>,
       <<"10C", "10S", "8C", "7H", "2H", "3H", "KH", "10D", "6H", "2D">>,
       <<"QC", "9S", "9C", "8H", "9H", "10H", "QH", "QD", "5H", "3D">>,
       <<"KC", "8S", "10C", "QC", "KC", "AC", "AD", "KD", "4H", "4D">>,
       <<"AC", "7S", "6S", "5S", "4S", "3S", "2S", "AS", "3H", "5D">>,
       <<"XX", "AD", "KD", "QD", "10D", "9D", "8D", "7D", "6D", "XX">> >>

EMPTY == 0
BLUE == 1
GREEN == 2
WILD == 3

\* Optional[int] winner: None is modelled by a value that is no player id.
None == -1

num_players == 2
\* the threshold of the games with more than two players, used for two
sequences_to_win_One == 1

sequences_to_win == IF num_players = 2 THEN 2 ELSE 1

Players == 0 .. (num_players - 1)

Card(rank, suit) == [rank |-> rank, suit |-> suit]

\* Card.__str__
CardStr(card) == card.rank \o card.suit

is_two_eyed_jack(card) == CardStr(card) \in TWO_EYED_JACKS
is_one_eyed_jack(card) == CardStr(card) \in ONE_EYED_JACKS
is_jack(card) == card.rank = "J"

Move(card, row, col, is_removal) ==
    [card |-> card, row |-> row, col |-> col, is_removal |-> is_removal]

(***************************************************************************)
(* Sequence helpers                                                         *)
(***************************************************************************)
Range(s) == {s[i] : i \in 1 .. Len(s)}

\* s.count(x)
Count(s, x) == Cardinality({i \in 1 .. Len(s) : s[i] = x})

\* drops every occurrence of x, not only the first
RemoveFirst_All(s, x) == SelectSeq(s, LAMBDA y : y # x)

\* list.remove(x): drop the first occurrence
RemoveFirst(s, x) ==
    LET k == CHOOSE i \in 1 .. Len(s) : s[i] = x /\ \A j \in 1 .. (i - 1) : s[j] # x
    IN  SubSeq(s, 1, k - 1) \o SubSeq(s, k + 1, Len(s))

\* the cells of the board in the order of "for row in range(10): for col in range(10)"
Cells == [i \in 1 .. 100 |-> <<(i - 1) \div 10, (i - 1) % 10>>]

Corners == {<<0, 0>>, <<0, 9>>, <<9, 0>>, <<9, 9>>}

(***************************************************************************)
(* initialize_game                                                          *)
(***************************************************************************)
SuitCards(suit) == [i \in 1 .. 13 |-> IF i <= 12 THEN Card(RANKS[i], suit) ELSE Card("J", suit)]

OneDeck == SuitCards(SUITS[1]) \o SuitCards(SUITS[2]) \o SuitCards(SUITS[3]) \o SuitCards(SUITS[4])

\* the deck before random.shuffle: two standard decks
FullDeck == OneDeck \o OneDeck

\* random.shuffle returns some permutation of the deck
IsShuffleOf(shuffled, deck) ==
    /\ Len(shuffled) = Len(deck)
    /\ \A card \in Range(deck) : Count(shuffled, card) = Count(deck, card)

\* a table whose two-player entry is the six cards of three players
cards_per_player_Six == (2 :> 6) @@ (3 :> 6) @@ (4 :> 6) @@ (6 :> 5) @@ (8 :> 4) @@ (9 :> 4) @@ (10 :> 3) @@ (12 :> 3)

cards_per_player == (2 :> 7) @@ (3 :> 6) @@ (4 :> 6) @@ (6 :> 5) @@ (8 :> 4) @@ (9 :> 4) @@ (10 :> 3) @@ (12 :> 3)

hand_size == IF num_players \in DOMAIN cards_per_player THEN cards_per_player[num_players] ELSE 7

initialize_game(shuffled) ==
    [ board |-> [row \in 0 .. 9 |-> [col \in 0 .. 9 |->
                    IF <<row, col>> \in Corners THEN WILD ELSE EMPTY]],
      player_hands |-> [player \in Players |->
                    [i \in 1 .. hand_size |-> shuffled[Len(shuffled) - player * hand_size - i + 1]]],
      deck |-> SubSeq(shuffled, 1, Len(shuffled) - num_players * hand_size),
      discard_pile |-> <<>>,
      current_player |-> 0,
      sequences |-> [i \in Players |-> <<>>],
      chips_on_board |-> [i \in Players |-> {}],
      winner |-> None,
      turn_number |-> 0 ]

(***************************************************************************)
(* Board queries                                                            *)
(***************************************************************************)
get_chip_color(player_id) == IF player_id = 0 THEN BLUE ELSE GREEN

get_board_card(row, col) == BOARD_LAYOUT[row + 1][col + 1]

find_card_positions(card) ==
    SelectSeq(Cells, LAMBDA p : get_board_card(p[1], p[2]) = CardStr(card))

\* no corner test, and "not a player chip" in place of "Empty"
is_position_available_NoChip(st, row, col) ==
    st.board[row][col] \notin {BLUE, GREEN}

is_position_available(st, row, col) ==
    IF get_board_card(row, col) = "XX" THEN FALSE
    ELSE st.board[row][col] = EMPTY

\* "any" in place of "all": dead as soon as one cell is covered
is_dead_card_Any(st, card) ==
    IF is_jack(card) THEN FALSE
    ELSE LET positions == find_card_positions(card)
         IN  \E i \in 1 .. Len(positions) :
                st.board[positions[i][1]][positions[i][2]] # EMPTY

is_dead_card(st, card) ==
    IF is_jack(card) THEN FALSE
    ELSE LET positions == find_card_positions(card)
         IN  \A i \in 1 .. Len(positions) :
                st.board[positions[i][1]][positions[i][2]] # EMPTY

\* looks the chip up in the sequences of the other player
_is_chip_in_completed_sequence_Other(st, row, col, player_id) ==
    \E i \in 1 .. Len(st.sequences[1 - player_id]) :
        <<row, col>> \in Range(st.sequences[1 - player_id][i])

_is_chip_in_completed_sequence(st, row, col, player_id) ==
    \E i \in 1 .. Len(st.sequences[player_id]) :
        <<row, col>> \in Range(st.sequences[player_id][i])

(***************************************************************************)
(* get_valid_moves                                                          *)
(***************************************************************************)
\* [Move(card, row, col, is_removal) for (row, col) in positions]
MovesAt(card, positions, is_removal) ==
    [i \in 1 .. Len(positions) |-> Move(card, positions[i][1], positions[i][2], is_removal)]

\* two-eyed jack: every available cell
TwoEyedJackMoves(st, card) ==
    MovesAt(card, SelectSeq(Cells, LAMBDA p : is_position_available(st, p[1], p[2])), FALSE)

\* every chip of the opponent, recorded sequences included
RemovalsFrom_Unprotected(st, card, opp_id) ==
    MovesAt(card, SelectSeq(Cells, LAMBDA p : p \in st.chips_on_board[opp_id]), TRUE)

\* one-eyed jack: the chips of opponent opp_id that are in none of its
\* recorded sequences (the set chips_on_board is walked in board order)
RemovalsFrom(st, card, opp_id) ==
    MovesAt(card,
            SelectSeq(Cells, LAMBDA p :
                /\ p \in st.chips_on_board[opp_id]
                /\ ~ _is_chip_in_completed_sequence(st, p[1], p[2], opp_id)),
            TRUE)

RECURSIVE OneEyedJackMoves(_, _, _, _)
OneEyedJackMoves(st, player_id, card, opp_id) ==
    IF opp_id >= num_players THEN <<>>
    ELSE (IF opp_id = player_id THEN <<>> ELSE RemovalsFrom(st, card, opp_id))
         \o OneEyedJackMoves(st, player_id, card, opp_id + 1)

\* every layout cell of a card that is not dead, available or not
RegularCardMoves_Unfiltered(st, card) ==
    IF is_dead_card(st, card) THEN <<>>
    ELSE MovesAt(card, find_card_positions(card), FALSE)

\* regular card: nothing for a dead card, else its available layout cells
RegularCardMoves(st, card) ==
    IF is_dead_card(st, card) THEN <<>>
    ELSE MovesAt(card,
                 SelectSeq(find_card_positions(card),
                           LAMBDA p : is_position_available(st, p[1], p[2])),
                 FALSE)

CardMoves(st, player_id, card) ==
    IF is_two_eyed_jack(card) THEN TwoEyedJackMoves(st, card)
    ELSE IF is_one_eyed_jack(card) THEN OneEyedJackMoves(st, player_id, card, 0)
    ELSE RegularCardMoves(st, card)

RECURSIVE HandMoves(_, _, _, _)
HandMoves(st, player_id, hand, k) ==
    IF k > Len(hand) THEN <<>>
    ELSE CardMoves(st, player_id, hand[k]) \o HandMoves(st, player_id, hand, k + 1)

get_valid_moves(st, player_id) ==
    HandMoves(st, player_id, st.player_hands[player_id], 1)

(***************************************************************************)
(* Sequence detection                                                       *)
(***************************************************************************)
directions == << <<0, 1>>, <<1, 0>>, <<1, 1>>, <<1, -1>> >>

\* The five cells from (start_row, start_col) in direction (dr, dc) when all
\* are on the board and hold player_color or WILD; << >> stands for None.
_check_sequence_from(st, start_row, start_col, dr, dc, player_color, player_id) ==
    LET cell(i) == <<start_row + i * dr, start_col + i * dc>>
        ok(i) == /\ 0 <= cell(i)[1] /\ cell(i)[1] < 10
                 /\ 0 <= cell(i)[2] /\ cell(i)[2] < 10
                 /\ st.board[cell(i)[1]][cell(i)[2]] \in {player_color, WILD}
    IN  IF \A i \in 0 .. 4 : ok(i) THEN [i \in 1 .. 5 |-> cell(i - 1)] ELSE <<>>

_is_sequence_already_counted(st, sequence, player_id) ==
    \E i \in 1 .. Len(st.sequences[player_id]) :
        Range(st.sequences[player_id][i]) = Range(sequence)

\* refuses only a window that is recorded already
_can_add_sequence_Identical(st, new_seq, player_id) ==
    \A i \in 1 .. Len(st.sequences[player_id]) :
        ~ (Cardinality(Range(new_seq) \cap Range(st.sequences[player_id][i])) > 4)

_can_add_sequence(st, new_seq, player_id) ==
    \A i \in 1 .. Len(st.sequences[player_id]) :
        ~ (Cardinality(Range(new_seq) \cap Range(st.sequences[player_id][i])) > 1)

\* the windows tested by the triple loop over row, col and direction, in order
ScanWindows(st, player_id) ==
    [k \in 1 .. 400 |->
        LET row == (k - 1) \div 40
            col == ((k - 1) \div 4) % 10
            d == directions[((k - 1) % 4) + 1]
        IN  _check_sequence_from(st, row, col, d[1], d[2], get_chip_color(player_id), player_id)]

new_sequences(st, player_id) ==
    SelectSeq(ScanWindows(st, player_id),
              LAMBDA sequence : sequence # <<>> /\ ~ _is_sequence_already_counted(st, sequence, player_id))

\* "for seq in new_sequences: if self._can_add_sequence(...): append"
RECURSIVE AddSequences(_, _, _, _)
AddSequences(st, player_id, new, k) ==
    IF k > Len(new) THEN st
    ELSE AddSequences(
            IF _can_add_sequence(st, new[k], player_id)
            THEN [st EXCEPT !.sequences[player_id] = Append(@, new[k])]
            ELSE st,
            player_id, new, k + 1)

_check_for_sequences(st, player_id) ==
    AddSequences(st, player_id, new_sequences(st, player_id), 1)

(***************************************************************************)
(* make_move                                                                *)
(***************************************************************************)
\* "opp == player_id" in place of "opp != player_id": the target cell is
\* looked for in the mover's own chip set
FindOpponent_Self(st, player_id, move) ==
    LET opps == {opp \in Players :
                    opp = player_id /\ <<move.row, move.col>> \in st.chips_on_board[opp]}
    IN  IF opps = {} THEN None
        ELSE CHOOSE opp \in opps : \A other \in opps : opp <= other

\* the first opponent whose chip set holds the target cell, or None
FindOpponent(st, player_id, move) ==
    LET opps == {opp \in Players :
                    opp # player_id /\ <<move.row, move.col>> \in st.chips_on_board[opp]}
    IN  IF opps = {} THEN None
        ELSE CHOOSE opp \in opps : \A other \in opps : opp <= other

\* clears the board cell and leaves the chip in the owner's set
RemoveChip_BoardOnly(st, opponent_id, move) ==
    [st EXCEPT !.board[move.row][move.col] = EMPTY]

\* writes the mover's colour on the cell, as the placement branch does
RemoveChip_Capture(st, opponent_id, move) ==
    [st EXCEPT !.board[move.row][move.col] = get_chip_color(st.current_player),
               !.chips_on_board[opponent_id] = @ \ {<<move.row, move.col>>}]

RemoveChip(st, opponent_id, move) ==
    [st EXCEPT !.board[move.row][move.col] = EMPTY,
               !.chips_on_board[opponent_id] = @ \ {<<move.row, move.col>>}]

PlaceChip(st, player_id, move) ==
    [st EXCEPT !.board[move.row][move.col] = get_chip_color(player_id),
               !.chips_on_board[player_id] = @ \cup {<<move.row, move.col>>}]

\* the discard under "if not move.is_removal": the jack of a removal stays
\* in the hand and off the discard pile
DiscardCard_JackKept(st, player_id, move) ==
    IF move.is_removal THEN st
    ELSE [st EXCEPT !.player_hands[player_id] = RemoveFirst(@, move.card),
                    !.discard_pile = Append(@, move.card)]

\* the played card leaves the hand but is not put on the discard pile
DiscardCard_Lost(st, player_id, move) ==
    [st EXCEPT !.player_hands[player_id] = RemoveFirst(@, move.card)]

DiscardCard(st, player_id, move) ==
    [st EXCEPT !.player_hands[player_id] = RemoveFirst(@, move.card),
               !.discard_pile = Append(@, move.card)]

\* draws the first card of the deck list, not the last
DrawCard_First(st, player_id) ==
    IF st.deck # <<>>
    THEN [st EXCEPT !.player_hands[player_id] = Append(@, st.deck[1]),
                    !.deck = SubSeq(@, 2, Len(@))]
    ELSE st

DrawCard(st, player_id) ==
    IF st.deck # <<>>
    THEN [st EXCEPT !.player_hands[player_id] = Append(@, st.deck[Len(st.deck)]),
                    !.deck = SubSeq(@, 1, Len(@) - 1)]
    ELSE st

RecordMove(hist, st, player_id, move) ==
    Append(hist, [player |-> player_id, move |-> move, turn |-> st.turn_number])

CheckWinner(st, player_id) ==
    IF Len(st.sequences[player_id]) >= sequences_to_win
    THEN [st EXCEPT !.winner = player_id]
    ELSE st

\* counts the turn and leaves the same player to move
NextTurn_SamePlayer(st) ==
    [st EXCEPT !.turn_number = @ + 1]

NextTurn(st) ==
    [st EXCEPT !.turn_number = @ + 1,
               !.current_player = (@ + 1) % num_players]

\* a wrong "return False" that has already passed the turn
Rejected_TurnPassed(st, hist) ==
    [state |-> [st EXCEPT !.turn_number = @ + 1,
                          !.current_player = (@ + 1) % num_players],
     move_history |-> hist, ok |-> FALSE]

\* "return False": nothing has been assigned yet
Rejected(st, hist) ==
    [state |-> st, move_history |-> hist, ok |-> FALSE]

\* "if not move.card.is_jack()" in place of "if not move.is_removal": no
\* scan after a two-eyed jack either
make_move_NoScanAfterJack(st, hist, move) ==
    LET player_id == st.current_player
    IN  IF move.card \notin Range(st.player_hands[player_id]) THEN Rejected(st, hist)
        ELSE LET opponent_id == FindOpponent(st, player_id, move)
             IN  IF move.is_removal /\ opponent_id = None THEN Rejected(st, hist)
                 ELSE LET chipped == IF move.is_removal
                                     THEN RemoveChip(st, opponent_id, move)
                                     ELSE PlaceChip(st, player_id, move)
                          drawn == DrawCard(DiscardCard(chipped, player_id, move), player_id)
                          scanned == IF ~ is_jack(move.card)
                                     THEN _check_for_sequences(drawn, player_id)
                                     ELSE drawn
                      IN  [state |-> NextTurn(CheckWinner(scanned, player_id)),
                           move_history |-> RecordMove(hist, st, player_id, move),
                           ok |-> TRUE]

\* make_move(move) on engine state (st, hist): the new state, the new
\* history and the returned boolean.
make_move(st, hist, move) ==
    LET player_id == st.current_player
    IN  IF move.card \notin Range(st.player_hands[player_id]) THEN Rejected(st, hist)
        ELSE LET opponent_id == FindOpponent(st, player_id, move)
             IN  IF move.is_removal /\ opponent_id = None THEN Rejected(st, hist)
                 ELSE LET chipped == IF move.is_removal
                                     THEN RemoveChip(st, opponent_id, move)
                                     ELSE PlaceChip(st, player_id, move)
                          drawn == DrawCard(DiscardCard(chipped, player_id, move), player_id)
                          scanned == IF ~ move.is_removal
                                     THEN _check_for_sequences(drawn, player_id)
                                     ELSE drawn
                      IN  [state |-> NextTurn(CheckWinner(scanned, player_id)),
                           move_history |-> RecordMove(hist, st, player_id, move),
                           ok |-> TRUE]

(***************************************************************************)
(* is_game_over                                                             *)
(***************************************************************************)
\* without the test of state.winner: over only when nobody can move
is_game_over_NoWinnerCheck(st) ==
    IF \E player \in Players : get_valid_moves(st, player) # <<>> THEN FALSE
    ELSE TRUE

\* asks only the player to move for a valid move
is_game_over_CurrentOnly(st) ==
    IF st.winner # None THEN TRUE
    ELSE IF get_valid_moves(st, st.current_player) # <<>> THEN FALSE
    ELSE TRUE

is_game_over(st) ==
    IF st.winner # None THEN TRUE
    ELSE IF \E player \in Players : get_valid_moves(st, player) # <<>> THEN FALSE
    ELSE TRUE

get_winner(st) == st.winner

(***************************************************************************)
(* src/sequence_bot.py: the move evaluator of a "balanced" SequenceBot      *)
(***************************************************************************)
weights ==
    [ win_sequence |-> 10000, extend_4 |-> 450, extend_3 |-> 90, extend_2 |-> 28,
      new_potential |-> 12, corner_use |-> 22,
      block_win |-> 6000, block_4 |-> 400, block_3 |-> 80, block_2 |-> 20,
      jack_save |-> 12, center_bonus |-> 4, flexibility |-> 7 ]

Abs(x) == IF x < 0 THEN -x ELSE x

\* "for offset in range(-4, 1)": the 5-cell windows through (row, col) in
\* direction (dr, dc) that lie on the board ("if not valid: continue")
sequence_cells(row, col, dr, dc, offset) ==
    [i \in 1 .. 5 |-> <<row + (offset + i - 1) * dr, col + (offset + i - 1) * dc>>]

ValidWindows(row, col, dr, dc) ==
    {w \in {sequence_cells(row, col, dr, dc, offset) : offset \in -4 .. 0} :
        \A i \in 1 .. 5 : /\ 0 <= w[i][1] /\ w[i][1] < 10
                          /\ 0 <= w[i][2] /\ w[i][2] < 10}

\* the counters of one window; the target cell (row, col) is skipped
WindowCount(st, cells, row, col, colours) ==
    Cardinality({i \in 1 .. 5 : /\ cells[i] # <<row, col>>
                                /\ st.board[cells[i][1]][cells[i][2]] \in colours})

\* total_friendly without the Wild corners: "our_count" in place of
\* "our_count + wild_count"
_analyze_line_NoWild(st, row, col, dr, dc, player_color) ==
    LET windows == ValidWindows(row, col, dr, dc)
        our_count(w) == WindowCount(st, w, row, col, {player_color})
        wild_count(w) == WindowCount(st, w, row, col, {WILD})
        empty_count(w) == WindowCount(st, w, row, col, {EMPTY})
        opp_count(w) == WindowCount(st, w, row, col, {BLUE, GREEN} \ {player_color})
        target_is_empty(w) == \E i \in 1 .. 5 : w[i] = <<row, col>>
        total_friendly(w) == our_count(w)
        opp_total(w) == opp_count(w) + wild_count(w)
        friendly(n) == {w \in windows : opp_count(w) = 0 /\ target_is_empty(w)
                                         /\ total_friendly(w) = n}
        blocking == {w \in windows : our_count(w) = 0 /\ target_is_empty(w)}
    IN  [ can_complete_sequence |-> friendly(4) # {},
          extends_4 |-> friendly(4) # {},
          extends_3 |-> friendly(3) # {},
          extends_2 |-> friendly(2) # {},
          new_potential |-> friendly(1) # {},
          blocks_win |-> \E w \in blocking : opp_total(w) = 4 /\ empty_count(w) = 0,
          blocks_4 |-> \E w \in blocking : opp_total(w) = 4 /\ empty_count(w) = 0,
          blocks_3 |-> \E w \in blocking : opp_total(w) = 3,
          blocks_2 |-> \E w \in blocking : opp_total(w) = 2 ]

_analyze_line(st, row, col, dr, dc, player_color) ==
    LET windows == ValidWindows(row, col, dr, dc)
        our_count(w) == WindowCount(st, w, row, col, {player_color})
        wild_count(w) == WindowCount(st, w, row, col, {WILD})
        empty_count(w) == WindowCount(st, w, row, col, {EMPTY})
        opp_count(w) == WindowCount(st, w, row, col, {BLUE, GREEN} \ {player_color})
        target_is_empty(w) == \E i \in 1 .. 5 : w[i] = <<row, col>>
        total_friendly(w) == our_count(w) + wild_count(w)
        opp_total(w) == opp_count(w) + wild_count(w)
        friendly(n) == {w \in windows : opp_count(w) = 0 /\ target_is_empty(w)
                                         /\ total_friendly(w) = n}
        blocking == {w \in windows : our_count(w) = 0 /\ target_is_empty(w)}
    IN  [ can_complete_sequence |-> friendly(4) # {},
          extends_4 |-> friendly(4) # {},
          extends_3 |-> friendly(3) # {},
          extends_2 |-> friendly(2) # {},
          new_potential |-> friendly(1) # {},
          blocks_win |-> \E w \in blocking : opp_total(w) = 4 /\ empty_count(w) = 0,
          blocks_4 |-> \E w \in blocking : opp_total(w) = 4 /\ empty_count(w) = 0,
          blocks_3 |-> \E w \in blocking : opp_total(w) = 3,
          blocks_2 |-> \E w \in blocking : opp_total(w) = 2 ]

_is_corner_adjacent(row, col) ==
    \E corner \in Corners :
        /\ Abs(row - corner[1]) <= 1
        /\ Abs(col - corner[2]) <= 1
        /\ <<row, col>> # corner

\* sum of term[1] .. term[n]
SumTo(term, n) ==
    LET s[k \in 0 .. n] == IF k = 0 THEN 0 ELSE s[k - 1] + term[k]
    IN  s[n]

\* "if" in place of every "elif" of the tier chain: each flag set for a
\* direction is credited
_evaluate_placement_offensive_AllTiers(st, player_id, move) ==
    LET row == move.row
        col == move.col
        player_color == get_chip_color(player_id)
        line_info == SubSeq([d \in 1 .. 4 |->
            _analyze_line(st, row, col, directions[d][1], directions[d][2], player_color)],
            1, 4)
        line_score == [d \in 1 .. 4 |->
            (IF line_info[d].can_complete_sequence THEN weights.win_sequence ELSE 0)
            + (IF line_info[d].extends_4 THEN weights.extend_4 ELSE 0)
            + (IF line_info[d].extends_3 THEN weights.extend_3 ELSE 0)
            + (IF line_info[d].extends_2 THEN weights.extend_2 ELSE 0)
            + (IF line_info[d].new_potential THEN weights.new_potential ELSE 0)]
        line_potential == [d \in 1 .. 4 |->
            (IF line_info[d].extends_3 THEN 3 ELSE 0)
            + (IF line_info[d].extends_2 THEN 2 ELSE 0)
            + (IF line_info[d].new_potential THEN 1 ELSE 0)]
        sequence_potential == SumTo(line_potential, 4)
        center_dist2 == Abs(2 * row - 9) + Abs(2 * col - 9)
    IN  [ score |-> SumTo(line_score, 4)
                    + (IF _is_corner_adjacent(row, col) THEN weights.corner_use ELSE 0)
                    + (IF center_dist2 < 6
                       THEN (weights.center_bonus * (6 - center_dist2)) \div 2 ELSE 0)
                    + (IF sequence_potential >= 3
                       THEN weights.flexibility * sequence_potential ELSE 0),
          creates_sequence |-> \E d \in 1 .. 4 :
                line_info[d].can_complete_sequence \/ line_info[d].extends_4,
          sequence_potential |-> sequence_potential ]

\* score, creates_sequence and sequence_potential of a placement.  The
\* centre distance abs(row - 4.5) + abs(col - 4.5) is kept doubled, so the
\* bonus center_bonus * (3 - center_dist) is center_bonus * (6 - doubled) / 2,
\* an integer because the doubled distance is even.
_evaluate_placement_offensive(st, player_id, move) ==
    LET row == move.row
        col == move.col
        player_color == get_chip_color(player_id)
        line_info == SubSeq([d \in 1 .. 4 |->
            _analyze_line(st, row, col, directions[d][1], directions[d][2], player_color)],
            1, 4)
        line_score == [d \in 1 .. 4 |->
            (IF line_info[d].can_complete_sequence THEN weights.win_sequence ELSE 0)
            + (IF line_info[d].extends_4 THEN weights.extend_4
               ELSE IF line_info[d].extends_3 THEN weights.extend_3
               ELSE IF line_info[d].extends_2 THEN weights.extend_2
               ELSE IF line_info[d].new_potential THEN weights.new_potential
               ELSE 0)]
        line_potential == [d \in 1 .. 4 |->
            IF line_info[d].extends_4 THEN 0
            ELSE IF line_info[d].extends_3 THEN 3
            ELSE IF line_info[d].extends_2 THEN 2
            ELSE IF line_info[d].new_potential THEN 1
            ELSE 0]
        sequence_potential == SumTo(line_potential, 4)
        center_dist2 == Abs(2 * row - 9) + Abs(2 * col - 9)
    IN  [ score |-> SumTo(line_score, 4)
                    + (IF _is_corner_adjacent(row, col) THEN weights.corner_use ELSE 0)
                    + (IF center_dist2 < 6
                       THEN (weights.center_bonus * (6 - center_dist2)) \div 2 ELSE 0)
                    + (IF sequence_potential >= 3
                       THEN weights.flexibility * sequence_potential ELSE 0),
          creates_sequence |-> \E d \in 1 .. 4 :
                line_info[d].can_complete_sequence \/ line_info[d].extends_4,
          sequence_potential |-> sequence_potential ]

\* score and blocks_opponent of a placement; _analyze_line is called with
\* the opponent's colour as player_color
_evaluate_placement_defensive(st, player_id, move) ==
    LET opp_ids == SelectSeq([i \in 1 .. num_players |-> i - 1], LAMBDA o : o # player_id)
        line_info(k) ==
            _analyze_line(st, move.row, move.col,
                          directions[((k - 1) % 4) + 1][1], directions[((k - 1) % 4) + 1][2],
                          get_chip_color(opp_ids[((k - 1) \div 4) + 1]))
        n == 4 * Len(opp_ids)
        info == SubSeq([k \in 1 .. n |-> line_info(k)], 1, n)
        line_score == [k \in 1 .. n |->
            IF info[k].blocks_win THEN weights.block_win
            ELSE IF info[k].blocks_4 THEN weights.block_4
            ELSE IF info[k].blocks_3 THEN weights.block_3
            ELSE IF info[k].blocks_2 THEN weights.block_2
            ELSE 0]
    IN  [ score |-> SumTo(line_score, n),
          blocks_opponent |-> \E k \in 1 .. n :
                \/ info[k].blocks_win \/ info[k].blocks_4
                \/ info[k].blocks_3 \/ info[k].blocks_2 ]

_analyze_line_for_removal(st, row, col, dr, dc, opp_color) ==
    LET windows == ValidWindows(row, col, dr, dc)
        includes_target(w) == \E i \in 1 .. 5 : w[i] = <<row, col>>
        \* the target counts as one; the other cells count when opp_color or WILD
        opp_count(w) == 1 + WindowCount(st, w, row, col, {opp_color, WILD})
        hit == {w \in windows : includes_target(w)}
    IN  [ breaks_4 |-> \E w \in hit : opp_count(w) >= 4,
          breaks_3 |-> \E w \in hit : opp_count(w) = 3,
          breaks_2 |-> \E w \in hit : opp_count(w) = 2 ]

\* score and blocks_opponent of a removal: the first opponent that owns the
\* chip is analysed ("break"); no owner leaves the score at 0
_evaluate_removal(st, player_id, move) ==
    LET owners == {opp_id \in Players : /\ opp_id # player_id
                                         /\ <<move.row, move.col>> \in st.chips_on_board[opp_id]}
        opp_id == CHOOSE o \in owners : \A other \in owners : o <= other
        info == SubSeq([d \in 1 .. 4 |->
            _analyze_line_for_removal(st, move.row, move.col,
                                      directions[d][1], directions[d][2],
                                      get_chip_color(opp_id))], 1, 4)
        line_score == [d \in 1 .. 4 |->
            IF info[d].breaks_4 THEN weights.block_win
            ELSE IF info[d].breaks_3 THEN weights.block_4
            ELSE IF info[d].breaks_2 THEN weights.block_3
            ELSE 0]
    IN  [ score |-> IF owners = {} THEN 0 ELSE SumTo(line_score, 4),
          blocks_opponent |-> TRUE ]

\* the penalty without the test "remaining_cards > 50": a jack is penalised
\* at any deck size
_evaluate_move_AlwaysPenalty(st, player_id, move) ==
    LET offensive == IF move.is_removal
                     THEN [score |-> 0, creates_sequence |-> FALSE, sequence_potential |-> 0]
                     ELSE _evaluate_placement_offensive(st, player_id, move)
        defensive == IF move.is_removal
                     THEN _evaluate_removal(st, player_id, move)
                     ELSE _evaluate_placement_defensive(st, player_id, move)
        jack_penalty == IF is_jack(move.card) THEN weights.jack_save ELSE 0
    IN  [ move |-> move,
          score |-> offensive.score + defensive.score - jack_penalty,
          offensive_score |-> offensive.score,
          defensive_score |-> defensive.score,
          sequence_potential |-> offensive.sequence_potential,
          blocks_opponent |-> defensive.blocks_opponent,
          creates_sequence |-> offensive.creates_sequence ]

\* the MoveEvaluation of a move (without the reasoning text); the jack
\* penalty applies while more than 50 cards remain in the deck
_evaluate_move(st, player_id, move) ==
    LET offensive == IF move.is_removal
                     THEN [score |-> 0, creates_sequence |-> FALSE, sequence_potential |-> 0]
                     ELSE _evaluate_placement_offensive(st, player_id, move)
        defensive == IF move.is_removal
                     THEN _evaluate_removal(st, player_id, move)
                     ELSE _evaluate_placement_defensive(st, player_id, move)
        remaining_cards == Len(st.deck)
        jack_penalty == IF is_jack(move.card) /\ remaining_cards > 50
                        THEN weights.jack_save ELSE 0
    IN  [ move |-> move,
          score |-> offensive.score + defensive.score - jack_penalty,
          offensive_score |-> offensive.score,
          defensive_score |-> defensive.score,
          sequence_potential |-> offensive.sequence_potential,
          blocks_opponent |-> defensive.blocks_opponent,
          creates_sequence |-> offensive.creates_sequence ]

\* [self._evaluate_move(game, move) for move in valid_moves]
Evaluations(st, player_id) ==
    LET valid_moves == get_valid_moves(st, player_id)
    IN  SubSeq([i \in 1 .. Len(valid_moves) |->
                    _evaluate_move(st, player_id, valid_moves[i])], 1, Len(valid_moves))

\* sorts lowest score first
SortByScore_Ascending(evaluations) ==
    LET n == Len(evaluations)
        place == SubSeq([i \in 1 .. n |->
            1 + Cardinality({j \in 1 .. n : evaluations[j].score < evaluations[i].score})
              + Cardinality({j \in 1 .. (i - 1) : evaluations[j].score = evaluations[i].score})],
            1, n)
    IN  [k \in 1 .. n |-> evaluations[CHOOSE i \in 1 .. n : place[i] = k]]

\* evaluations.sort(key=lambda e: e.score, reverse=True): highest score
\* first, equal scores in their original order (the sort is stable)
SortByScore(evaluations) ==
    LET n == Len(evaluations)
        place == SubSeq([i \in 1 .. n |->
            1 + Cardinality({j \in 1 .. n : evaluations[j].score > evaluations[i].score})
              + Cardinality({j \in 1 .. (i - 1) : evaluations[j].score = evaluations[i].score})],
            1, n)
    IN  [k \in 1 .. n |-> evaluations[CHOOSE i \in 1 .. n : place[i] = k]]

\* The results random.choice(top_moves).move can give, each as <<move>>;
\* {<< >>} when get_move returns None.  Scores are integers, so
\* "score >= top_score - 0.5" is "2 * score >= 2 * top_score - 1".
get_move(st, player_id) ==
    LET evaluations == SortByScore(Evaluations(st, player_id))
        top_score == evaluations[1].score
        top_moves == SelectSeq(evaluations, LAMBDA e : 2 * e.score >= 2 * top_score - 1)
    IN  IF get_valid_moves(st, player_id) = <<>> THEN {<<>>}
        ELSE {<<top_moves[i].move>> : i \in 1 .. Len(top_moves)}

\* <<evaluations[0]>> after the sort; << >> when it returns None
get_move_with_analysis(st, player_id) ==
    IF get_valid_moves(st, player_id) = <<>> THEN <<>>
    ELSE <<SortByScore(Evaluations(st, player_id))[1]>>

(***************************************************************************)
(* Games: a shuffle and the line of play its caller follows                 *)
(***************************************************************************)
Deck1 ==
    << Card("J","H"), Card("J","D"), Card("J","S"), Card("J","H"), Card("J","D"), Card("J","C"),
       Card("7","S"), Card("8","S"), Card("10","S"), Card("Q","S"), Card("K","S"), Card("A","H"),
       Card("3","H"), Card("4","H"), Card("6","H"), Card("7","H"), Card("8","H"), Card("9","H"),
       Card("10","H"), Card("2","D"), Card("3","D"), Card("5","D"), Card("6","D"), Card("7","D"),
       Card("8","D"), Card("3","C"), Card("5","C"), Card("6","C"), Card("7","C"), Card("8","C"),
       Card("9","C"), Card("3","S"), Card("4","S"), Card("5","S"), Card("6","S"), Card("7","S"),
       Card("8","S"), Card("9","S"), Card("10","S"), Card("Q","S"), Card("K","S"), Card("A","H"),
       Card("2","H"), Card("3","H"), Card("4","H"), Card("5","H"), Card("6","H"), Card("7","H"),
       Card("8","H"), Card("9","H"), Card("10","H"), Card("A","D"), Card("2","D"), Card("3","D"),
       Card("4","D"), Card("5","D"), Card("6","D"), Card("7","D"), Card("8","D"), Card("10","D"),
       Card("Q","D"), Card("K","D"), Card("A","C"), Card("2","C"), Card("3","C"), Card("4","C"),
       Card("5","C"), Card("6","C"), Card("7","C"), Card("8","C"), Card("9","C"), Card("10","C"),
       Card("Q","C"), Card("K","C"), Card("9","D"), Card("9","S"), Card("9","D"), Card("A","S"),
       Card("Q","H"), Card("A","S"), Card("Q","H"), Card("2","S"), Card("K","H"), Card("2","H"),
       Card("K","H"), Card("J","S"), Card("A","C"), Card("5","S"), Card("J","C"), Card("5","H"),
       Card("K","C"), Card("Q","C"), Card("10","C"), Card("10","D"), Card("Q","D"), Card("K","D"),
       Card("A","D"), Card("4","C"), Card("4","D"), Card("2","C"), Card("6","S"), Card("4","S"),
       Card("3","S"), Card("2","S") >>

\* Blue builds row 0 and column 4 around the cell (0, 4); Green records the
\* row-9 sequence with the corner (9, 0), builds column 0 and covers (5, 4).
Line1 ==
    << Move(Card("2","S"), 0, 1, FALSE), Move(Card("A","D"), 9, 1, FALSE),
       Move(Card("3","S"), 0, 2, FALSE), Move(Card("K","D"), 9, 2, FALSE),
       Move(Card("4","S"), 0, 3, FALSE), Move(Card("Q","D"), 9, 3, FALSE),
       Move(Card("6","S"), 0, 5, FALSE), Move(Card("10","D"), 9, 4, FALSE),
       Move(Card("2","C"), 1, 4, FALSE), Move(Card("10","C"), 5, 0, FALSE),
       Move(Card("4","D"), 2, 4, FALSE), Move(Card("Q","C"), 6, 0, FALSE),
       Move(Card("4","C"), 3, 4, FALSE), Move(Card("K","C"), 7, 0, FALSE),
       Move(Card("5","H"), 4, 4, FALSE), Move(Card("J","C"), 5, 4, FALSE) >>

\* a shuffle that two balanced bots play for 100 turns, until Blue holds
\* only dead cards while Green can still play
Deck3 ==
    << Card("10", "S"), Card("3", "S"), Card("K", "D"), Card("4", "H"), Card("7", "C"),
       Card("J", "D"), Card("J", "S"), Card("A", "D"), Card("10", "D"), Card("8", "H"),
       Card("9", "H"), Card("5", "H"), Card("3", "D"), Card("6", "H"), Card("10", "S"),
       Card("2", "S"), Card("5", "H"), Card("4", "H"), Card("10", "C"), Card("A", "C"),
       Card("10", "H"), Card("9", "D"), Card("5", "D"), Card("8", "S"), Card("7", "S"),
       Card("8", "S"), Card("K", "D"), Card("6", "S"), Card("J", "H"), Card("Q", "D"),
       Card("K", "H"), Card("6", "D"), Card("4", "C"), Card("J", "H"), Card("9", "D"),
       Card("6", "C"), Card("K", "H"), Card("9", "C"), Card("Q", "S"), Card("3", "D"),
       Card("Q", "S"), Card("A", "C"), Card("K", "C"), Card("8", "D"), Card("A", "S"),
       Card("7", "S"), Card("2", "D"), Card("3", "C"), Card("7", "D"), Card("K", "S"),
       Card("7", "H"), Card("5", "C"), Card("A", "H"), Card("5", "S"), Card("7", "H"),
       Card("5", "D"), Card("10", "H"), Card("4", "C"), Card("2", "D"), Card("2", "H"),
       Card("9", "H"), Card("2", "H"), Card("5", "C"), Card("4", "D"), Card("2", "S"),
       Card("9", "S"), Card("8", "C"), Card("K", "S"), Card("6", "S"), Card("3", "H"),
       Card("3", "C"), Card("A", "D"), Card("3", "S"), Card("J", "C"), Card("2", "C"),
       Card("Q", "H"), Card("7", "D"), Card("5", "S"), Card("Q", "D"), Card("2", "C"),
       Card("6", "H"), Card("J", "C"), Card("9", "C"), Card("Q", "H"), Card("A", "H"),
       Card("8", "C"), Card("J", "D"), Card("4", "S"), Card("Q", "C"), Card("4", "S"),
       Card("6", "C"), Card("J", "S"), Card("Q", "C"), Card("10", "C"), Card("6", "D"),
       Card("9", "S"), Card("K", "C"), Card("8", "D"), Card("3", "H"), Card("10", "D"),
       Card("8", "H"), Card("A", "S"), Card("7", "C"), Card("4", "D") >>

Games == << [deck |-> Deck1, line |-> Line1],
            [deck |-> Deck1, line |-> <<>>] >>

Line == Games[game].line

(***************************************************************************)
(* The state machine                                                        *)
(***************************************************************************)
Init ==
    /\ game \in 1 .. Len(Games)
    /\ IsShuffleOf(Games[game].deck, FullDeck)
    /\ state = initialize_game(Games[game].deck)
    /\ move_history = <<>>
    /\ last_call = <<>>

\* one call self.make_move(move)
MakeMoveCall(move) ==
    LET r == make_move(state, move_history, move)
    IN  /\ state' = r.state
        /\ move_history' = r.move_history
        /\ last_call' = <<[move |-> move, ok |-> r.ok]>>
        /\ UNCHANGED game

ValidMoves == Range(get_valid_moves(state, state.current_player))

\* the caller plays the next move of the line
ScriptedMove ==
    /\ state.turn_number < Len(Line)
    /\ Line[state.turn_number + 1] \in ValidMoves
    /\ MakeMoveCall(Line[state.turn_number + 1])

\* the caller plays any move returned by get_valid_moves for the current player
FreeMove ==
    /\ state.turn_number >= Len(Line)
    /\ state.turn_number < Len(Line) + MaxFreeMoves
    /\ \E move \in ValidMoves : MakeMoveCall(move)

\* moves make_move must refuse: a card the current player does not hold, and
\* a removal (with a one-eyed jack in hand) aimed at a cell without an
\* opponent chip ((0, 1) is Empty or holds Blue's own chip)
ProbeCards == {Card("K", "S")}
ProbeCells == {<<0, 1>>}

InvalidMoves ==
    LET player_id == state.current_player
        hand == Range(state.player_hands[player_id])
        removals == {Move(card, p[1], p[2], TRUE) :
                        card \in {c \in hand : is_one_eyed_jack(c)}, p \in ProbeCells}
    IN  {Move(card, 4, 5, FALSE) : card \in ProbeCards \ hand}
        \cup {move \in removals : FindOpponent(state, player_id, move) = None}

InvalidCall ==
    \E move \in InvalidMoves : MakeMoveCall(move)

Next == ScriptedMove \/ FreeMove \/ InvalidCall

Spec == Init /\ [][Next]_vars

(***************************************************************************)
(* src/run_simulations.py: run_single_game, two balanced bots              *)
(***************************************************************************)
max_turns == 500

\* The shuffles of the simulated games.  In both games no two removals of
\* different chips tie for the best score, so the order in which Python
\* walks the set chips_on_board (board order here) does not decide a move.
Shuffles == <<Deck3, Deck1>>

SimInit ==
    /\ game \in 1 .. Len(Shuffles)
    /\ IsShuffleOf(Shuffles[game], FullDeck)
    /\ state = initialize_game(Shuffles[game])
    /\ move_history = <<>>
    /\ last_call = <<>>

\* One iteration of "while not game.is_game_over() and turn < max_turns":
\* the bot of the current player evaluates, the loop breaks when it gets
\* None, else the move is made.  Every move of get_valid_moves is applied,
\* so the loop counter turn equals state.turn_number.
RunTurn ==
    /\ ~ is_game_over(state)
    /\ state.turn_number < max_turns
    /\ LET evaluation == get_move_with_analysis(state, state.current_player)
       IN  /\ evaluation # <<>>
           /\ MakeMoveCall(evaluation[1].move)

SimNext == RunTurn

SimSpec == SimInit /\ [][SimNext]_vars

(***************************************************************************)
(* Properties                                                               *)
(***************************************************************************)
Pos == (0 .. 9) \X (0 .. 9)

ChipAt(st, p) == st.board[p[1]][p[2]]

\* the player whose chip colour is on cell p, as a set (empty when none)
OwnersOf(st, p) == {q \in Players : get_chip_color(q) = ChipAt(st, p)}

RECURSIVE HandTotal(_, _)
HandTotal(st, player) ==
    IF player >= num_players THEN 0
    ELSE Len(st.player_hands[player]) + HandTotal(st, player + 1)

PlayerChipCount(st) == Cardinality({p \in Pos : ChipAt(st, p) \in {BLUE, GREEN}})

\* the cells of BOARD_LAYOUT that show the card
Occurrences(card) == {c \in Pos : BOARD_LAYOUT[c[1] + 1][c[2] + 1] = CardStr(card)}

\* every card of the game: deck, hands and discard pile
CardsInGame(st) ==
    Range(st.deck) \cup Range(st.discard_pile)
        \cup UNION {Range(st.player_hands[p]) : p \in Players}

\* the last make_move call returned True / False
Applied == last_call # <<>> /\ last_call[1].ok
Refused == last_call # <<>> /\ ~ last_call[1].ok

\* this step is a make_move call that returned True, made by state.current_player
AppliedStep == state'.turn_number = state.turn_number + 1

\* C1 (as stated): at every turn the deck, the hands, the discard pile and
\* the player chips on the board add up to 104.
C1_ConservationWithChips ==
    Len(state.deck) + HandTotal(state, 0) + Len(state.discard_pile)
        + PlayerChipCount(state) = 104

\* C1 (amended): the deck, the hands and the discard pile add up to 104; the
\* chips on the board are not part of the sum.
C1_Conservation ==
    Len(state.deck) + HandTotal(state, 0) + Len(state.discard_pile) = 104

\* a placement and a removal have both been applied
C1_Witness ==
    /\ Applied
    /\ PlayerChipCount(state) > 0
    /\ \E i \in 1 .. Len(move_history) : move_history[i].move.is_removal

\* C2: any two distinct entries of a player's recorded sequence list share at
\* most one coordinate, so no coordinate set is recorded twice.
C2_Overlap ==
    \A p \in Players :
        \A i, j \in 1 .. Len(state.sequences[p]) :
            i # j => Cardinality(Range(state.sequences[p][i])
                                 \cap Range(state.sequences[p][j])) <= 1

\* Blue has two recorded sequences after a placement that made the windows
\* (0,0)-(0,4) and (0,1)-(0,5) of row 0 qualify together
C2_Witness ==
    /\ Len(state.sequences[0]) >= 2
    /\ \A col \in 0 .. 5 : state.board[0][col] \in {BLUE, WILD}

\* C3: while no winner is set, a successful move of player p sets winner to p
\* exactly if p then has at least 2 recorded sequences, and only on the move
\* that takes p's count from below 2 to 2 or more; the winner is None while
\* both players have fewer than 2 recorded sequences.
C3_WinThreshold ==
    /\ [](  (\A p \in Players : Len(state.sequences[p]) < 2) => state.winner = None)
    /\ [][ (AppliedStep /\ state.winner = None) =>
              LET p == state.current_player
              IN  /\ (state'.winner = p) <=> (Len(state'.sequences[p]) >= 2)
                  /\ state'.winner \in {None, p}
                  /\ state'.winner = p => Len(state.sequences[p]) < 2 ]_vars

\* one placement has recorded two sequences through the placed cell and won
C3_Witness ==
    /\ Applied
    /\ state.winner # None
    /\ Len(state.sequences[state.winner]) = 2
    /\ \A i \in 1 .. 2 :
          <<last_call[1].move.row, last_call[1].move.col>>
              \in Range(state.sequences[state.winner][i])

\* C4: no removal move of get_valid_moves(p) targets a cell of a recorded
\* sequence of the opponent who owns the chip on that cell.
C4_RemovalProtection ==
    \A p \in Players :
        \A move \in Range(get_valid_moves(state, p)) :
            move.is_removal =>
                \A opp \in OwnersOf(state, <<move.row, move.col>>) \ {p} :
                    \A i \in 1 .. Len(state.sequences[opp]) :
                        <<move.row, move.col>> \notin Range(state.sequences[opp][i])

\* a player holding a one-eyed jack faces an opponent with a recorded
\* sequence and with chips outside it, and is offered removals
C4_Witness ==
    \E p \in Players :
        /\ \E move \in Range(get_valid_moves(state, p)) : move.is_removal
        /\ Len(state.sequences[1 - p]) >= 1
        /\ \E cell \in state.chips_on_board[1 - p] :
              cell \in Range(state.sequences[1 - p][1])

\* C5: make_move returns False when the card is not in the current player's
\* hand, and a call that returns False changes neither the GameState nor
\* move_history.
C5_RefusedUnchanged ==
    [][ /\ last_call' # <<>>
        /\ (last_call'[1].move.card \notin Range(state.player_hands[state.current_player]))
              => ~ last_call'[1].ok
        /\ ~ last_call'[1].ok => (state' = state /\ move_history' = move_history) ]_vars

\* a call with a card outside the hand, and a removal without target, were refused
C5_Witness ==
    /\ Refused
    /\ \/ last_call[1].move.card \notin Range(state.player_hands[state.current_player])
       \/ last_call[1].move.is_removal

\* C6: once winner is set, no make_move call changes the GameState.
C6_TerminalImmutable ==
    [][ state.winner # None => state' = state ]_vars

\* C7: every non-jack card lies on exactly two cells of BOARD_LAYOUT and
\* find_card_positions returns them; it returns the empty list for a jack.
C7_LayoutTwice ==
    \A card \in CardsInGame(state) :
        /\ Cardinality(Range(find_card_positions(card))) = Len(find_card_positions(card))
        /\ Len(find_card_positions(card)) = (IF is_jack(card) THEN 0 ELSE 2)

\* C8: is_dead_card(card) exactly if the card is no jack and both of its
\* (two) board occurrences are non-Empty.
C8_DeadCard ==
    \A card \in CardsInGame(state) :
        is_dead_card(state, card) <=>
            /\ card.rank # "J"
            /\ Cardinality(Occurrences(card)) = 2
            /\ \A c \in Occurrences(card) : ChipAt(state, c) # EMPTY

\* C9: every generated move uses a card of the player's hand; a placement
\* targets an Empty non-corner cell with a two-eyed jack or with the regular
\* card of that cell; a removal uses a one-eyed jack on another player's chip.
C9_MoveSoundness ==
    \A p \in Players :
        \A move \in Range(get_valid_moves(state, p)) :
            LET cell == <<move.row, move.col>>
            IN  /\ move.card \in Range(state.player_hands[p])
                /\ ~ move.is_removal =>
                      /\ cell \notin Corners
                      /\ ChipAt(state, cell) = EMPTY
                      /\ \/ CardStr(move.card) \in TWO_EYED_JACKS
                         \/ /\ move.card.rank # "J"
                            /\ CardStr(move.card) = BOARD_LAYOUT[move.row + 1][move.col + 1]
                /\ move.is_removal =>
                      /\ CardStr(move.card) \in ONE_EYED_JACKS
                      /\ \E q \in Players \ {p} : ChipAt(state, cell) = get_chip_color(q)

\* the same state offers a removal to one player and a two-eyed-jack
\* placement to the other, next to placements of regular cards
C9_Witness ==
    /\ \E p \in Players : \E move \in Range(get_valid_moves(state, p)) : move.is_removal
    /\ \E p \in Players : \E move \in Range(get_valid_moves(state, p)) :
          is_two_eyed_jack(move.card)
    /\ \E p \in Players : \E move \in Range(get_valid_moves(state, p)) :
          ~ is_jack(move.card)

\* C10: get_valid_moves(p) holds, once per copy of the card in p's hand, each
\* two-eyed-jack placement on an Empty non-corner cell, each placement of a
\* regular card on an Empty cell of its layout, and each one-eyed-jack removal
\* of an opponent chip that is in none of that opponent's recorded sequences.
C10_MoveCompleteness ==
    \A p \in Players :
        LET moves == get_valid_moves(state, p)
            hand == state.player_hands[p]
            InSequence(opp, cell) ==
                \E i \in 1 .. Len(state.sequences[opp]) :
                    cell \in Range(state.sequences[opp][i])
        IN  \A card \in Range(hand) : \A cell \in Pos :
                /\ ( /\ CardStr(card) \in TWO_EYED_JACKS
                     /\ cell \notin Corners
                     /\ ChipAt(state, cell) = EMPTY )
                   => Count(moves, Move(card, cell[1], cell[2], FALSE)) = Count(hand, card)
                /\ ( /\ card.rank # "J"
                     /\ BOARD_LAYOUT[cell[1] + 1][cell[2] + 1] = CardStr(card)
                     /\ ChipAt(state, cell) = EMPTY )
                   => Count(moves, Move(card, cell[1], cell[2], FALSE)) = Count(hand, card)
                /\ ( /\ CardStr(card) \in ONE_EYED_JACKS
                     /\ \E opp \in Players \ {p} :
                           /\ ChipAt(state, cell) = get_chip_color(opp)
                           /\ ~ InSequence(opp, cell) )
                   => Count(moves, Move(card, cell[1], cell[2], TRUE)) = Count(hand, card)

\* a hand with a card that has one covered and one Empty layout cell, while
\* hands hold a two-eyed jack and a one-eyed jack with removable chips
C10_Witness ==
    /\ \E p \in Players : \E card \in Range(state.player_hands[p]) :
          /\ ~ is_jack(card)
          /\ \E c1, c2 \in Occurrences(card) :
                ChipAt(state, c1) # EMPTY /\ ChipAt(state, c2) = EMPTY
    /\ \E p \in Players : \E card \in Range(state.player_hands[p]) : is_two_eyed_jack(card)
    /\ \E p \in Players : \E card \in Range(state.player_hands[p]) :
          is_one_eyed_jack(card) /\ state.chips_on_board[1 - p] # {}

\* the placements among the moves get_valid_moves returns for the current player
ValidPlacements(st) ==
    {move \in Range(get_valid_moves(st, st.current_player)) : ~ move.is_removal}

\* C11: in a game run by the simulation loop, whenever is_game_over() is
\* false the current player has at least one legal move, so the evaluator
\* returns None (and the loop stops without a winner) only when no player
\* has any legal move.
C11_NoMoveOnlyWhenOver ==
    /\ ~ is_game_over(state) => get_valid_moves(state, state.current_player) # <<>>
    /\ get_move_with_analysis(state, state.current_player) = <<>>
          => \A player \in Players : get_valid_moves(state, player) = <<>>

\* C12: every placement of get_valid_moves for the current player for which
\* _evaluate_move reports creates_sequence makes the mover's recorded
\* sequence list grow by a new entry of length 5 when make_move applies it.
C12_CreatesSequenceGrows ==
    \A move \in ValidPlacements(state) :
        _evaluate_move(state, state.current_player, move).creates_sequence =>
            LET player_id == state.current_player
                before == state.sequences[player_id]
                after == make_move(state, move_history, move).state.sequences[player_id]
            IN  /\ Len(after) > Len(before)
                /\ \A i \in (Len(before) + 1) .. Len(after) : Len(after[i]) = 5

\* C13: when a placement of the current player lies in an in-bounds 5-window
\* whose four other cells are opponent chips or Wild, its defensive score
\* includes the block_win weight and blocks_opponent is true.
C13_BlocksWin ==
    \A move \in ValidPlacements(state) :
        LET opp_color == get_chip_color(1 - state.current_player)
            threatened == \E d \in 1 .. 4 :
                \E w \in ValidWindows(move.row, move.col, directions[d][1], directions[d][2]) :
                    WindowCount(state, w, move.row, move.col, {opp_color, WILD}) = 4
            defensive == _evaluate_placement_defensive(state, state.current_player, move)
        IN  threatened =>
                /\ defensive.score >= weights.block_win
                /\ defensive.blocks_opponent

\* C15: after initialize_game() of a 2-player game each hand holds 7 cards,
\* the deck 90, the discard pile is empty, the corners are Wild and every
\* other cell Empty, the chip sets and sequence lists are empty, winner is
\* None, current_player is 0 and turn_number is 0.
C15_InitialState ==
    state.turn_number = 0 =>
        /\ \A p \in Players : Len(state.player_hands[p]) = 7
        /\ Len(state.deck) = 90
        /\ state.discard_pile = <<>>
        /\ \A c \in Pos : ChipAt(state, c) = (IF c \in Corners THEN WILD ELSE EMPTY)
        /\ \A p \in Players : state.chips_on_board[p] = {} /\ state.sequences[p] = <<>>
        /\ state.winner = None
        /\ state.current_player = 0
        /\ move_history = <<>>

\* the freshly dealt game: player 0 holds the last seven cards of the shuffle
C15_Witness ==
    /\ state.turn_number = 0
    /\ last_call = <<>>
    /\ \A i \in 1 .. 7 : state.player_hands[0][i] = Games[game].deck[105 - i]
    /\ \A i \in 1 .. 7 : state.player_hands[1][i] = Games[game].deck[98 - i]

\* C16: the four corner cells are Wild in every reachable state, no other
\* cell is ever Wild, and is_position_available is false for the corners.
C16_CornersWild ==
    /\ \A c \in Corners : ChipAt(state, c) = WILD
    /\ \A c \in Pos \ Corners : ChipAt(state, c) # WILD
    /\ \A c \in Corners : ~ is_position_available(state, c[1], c[2])

\* a two-eyed jack is in the hand of the player to move while chips lie next
\* to a corner, and a two-eyed jack has been played before
C16_Witness ==
    /\ \E card \in Range(state.player_hands[state.current_player]) : is_two_eyed_jack(card)
    /\ ChipAt(state, <<0, 1>>) = BLUE
    /\ ChipAt(state, <<9, 1>>) = GREEN

\* C17: chips_on_board[p] is exactly the set of cells that hold p's colour,
\* and the chip sets of the two players are disjoint.
C17_ChipSets ==
    /\ \A p \in Players :
          state.chips_on_board[p] = {c \in Pos : ChipAt(state, c) = get_chip_color(p)}
    /\ state.chips_on_board[0] \cap state.chips_on_board[1] = {}

\* the last call removed a chip: its cell is Empty and in no chip set, while
\* both players have chips on the board
C17_Witness ==
    /\ Applied
    /\ last_call[1].move.is_removal
    /\ ChipAt(state, <<last_call[1].move.row, last_call[1].move.col>>) = EMPTY
    /\ \A p \in Players : state.chips_on_board[p] # {}

\* C18: every recorded sequence of player p is a list of exactly 5 distinct
\* in-bounds cells (r0 + i*dr, c0 + i*dc), i = 0..4, for one of the four
\* directions, and each of its cells holds p's colour or Wild, also after
\* removals by the opponent.
C18_SequencesValid ==
    \A p \in Players : \A k \in 1 .. Len(state.sequences[p]) :
        LET sequence == state.sequences[p][k]
        IN  /\ Len(sequence) = 5
            /\ Cardinality(Range(sequence)) = 5
            /\ Range(sequence) \subseteq Pos
            /\ \E d \in 1 .. 4 : \A i \in 0 .. 4 :
                  sequence[i + 1] = <<sequence[1][1] + i * directions[d][1],
                                      sequence[1][2] + i * directions[d][2]>>
            /\ \A i \in 1 .. 5 : ChipAt(state, sequence[i]) \in {get_chip_color(p), WILD}

\* a player removed a chip of an opponent who had a recorded sequence by then
C18_Witness ==
    \E i \in 1 .. Len(move_history) :
        /\ move_history[i].move.is_removal
        /\ state.sequences[1 - move_history[i].player] # <<>>
        /\ \E j \in 1 .. (i - 1) :
              /\ move_history[j].player = 1 - move_history[i].player
              /\ <<move_history[j].move.row, move_history[j].move.col>>
                    \in Range(state.sequences[1 - move_history[i].player][1])
              /\ \A c \in Range(state.sequences[1 - move_history[i].player][1]) \ Corners :
                    \E h \in 1 .. j : <<move_history[h].move.row, move_history[h].move.col>> = c

\* C19: get_move returns None exactly when get_valid_moves is empty, else a
\* move of get_valid_moves whose total score is at least the maximum total
\* score minus 0.5; get_move_with_analysis returns an evaluation with the
\* maximum total score.
C19_MoveSelection ==
    \A player_id \in Players :
        LET valid_moves == get_valid_moves(state, player_id)
            evaluations == Evaluations(state, player_id)
            scores == {evaluations[i].score : i \in 1 .. Len(evaluations)}
            maximum == CHOOSE m \in scores : \A other \in scores : m >= other
            analysis == get_move_with_analysis(state, player_id)
        IN  /\ (<<>> \in get_move(state, player_id)) <=> (valid_moves = <<>>)
            /\ valid_moves = <<>> => get_move(state, player_id) = {<<>>} /\ analysis = <<>>
            /\ valid_moves # <<>> =>
                  /\ get_move(state, player_id) # {}
                  /\ \A choice \in get_move(state, player_id) :
                        /\ choice[1] \in Range(valid_moves)
                        /\ 2 * _evaluate_move(state, player_id, choice[1]).score
                              >= 2 * maximum - 1
                  /\ analysis # <<>>
                  /\ analysis[1].score = maximum
                  /\ analysis[1] \in Range(evaluations)

\* the evaluator returns None for the player to move, who holds cards, while
\* the other player gets a move
C19_Witness ==
    /\ state.player_hands[state.current_player] # <<>>
    /\ get_move(state, state.current_player) = {<<>>}
    /\ get_move_with_analysis(state, state.current_player) = <<>>
    /\ get_move(state, 1 - state.current_player) # {<<>>}

\* C20: every successful make_move adds 1 to turn_number and sets
\* current_player to (current_player + 1) mod 2; current_player equals
\* turn_number mod 2 in every reachable state, and two consecutive
\* successful moves are never made by the same player.
C20_TurnProgression ==
    /\ [](state.current_player = state.turn_number % 2)
    /\ [](\A i \in 1 .. (Len(move_history) - 1) :
             move_history[i].player # move_history[i + 1].player)
    /\ [][ (last_call' # <<>> /\ last_call'[1].ok) =>
              /\ state'.turn_number = state.turn_number + 1
              /\ state'.current_player = (state.current_player + 1) % 2
              /\ Len(move_history') = Len(move_history) + 1
              /\ move_history'[Len(move_history')].player = state.current_player ]_vars

\* three successful moves and then a refused call: the turn did not advance
C20_Witness ==
    /\ Refused
    /\ state.turn_number >= 3
    /\ Len(move_history) = state.turn_number

\* this step is a make_move call that returned True
SuccessfulMove == last_call' # <<>> /\ last_call'[1].ok /\ state' # state

\* C21: a successful make_move with a non-empty deck removes exactly the last
\* card of the deck and appends it to the mover's hand, whose size stays the
\* same; with an empty deck the mover's hand shrinks by one.  Every hand has
\* 7 cards while the deck is non-empty and never more than 7.
C21_ReplacementDraw ==
    /\ [](\A p \in Players :
            /\ Len(state.player_hands[p]) <= 7
            /\ state.deck # <<>> => Len(state.player_hands[p]) = 7)
    /\ [][ SuccessfulMove =>
              LET mover == state.current_player
                  hand == state.player_hands[mover]
                  hand_after == state'.player_hands[mover]
                  n == Len(state.deck)
              IN  IF n > 0
                  THEN /\ state'.deck = SubSeq(state.deck, 1, n - 1)
                       /\ Len(hand_after) = Len(hand)
                       /\ hand_after[Len(hand_after)] = state.deck[n]
                  ELSE /\ state'.deck = <<>>
                       /\ Len(hand_after) = Len(hand) - 1 ]_vars

\* the deck is used up and a move has been made from a short hand
C21_Witness ==
    /\ Applied
    /\ state.deck = <<>>
    /\ \E p \in Players : Len(state.player_hands[p]) < 6

\* C22: a successful removal sets exactly the target cell to Empty and takes
\* that coordinate out of the owning opponent's chip set; every other board
\* cell, the mover's chip set, the opponent's hand and both players'
\* recorded sequence lists stay as they were.
C22_RemovalFrame ==
    [][ (SuccessfulMove /\ last_call'[1].move.is_removal) =>
            LET mover == state.current_player
                target == <<last_call'[1].move.row, last_call'[1].move.col>>
                owners == {q \in Players \ {mover} : target \in state.chips_on_board[q]}
            IN  /\ Cardinality(owners) = 1
                /\ ChipAt(state, target) \in {get_chip_color(q) : q \in owners}
                /\ ChipAt(state', target) = EMPTY
                /\ \A c \in Pos \ {target} : ChipAt(state', c) = ChipAt(state, c)
                /\ \A q \in owners :
                      /\ state'.chips_on_board[q] = state.chips_on_board[q] \ {target}
                      /\ state'.player_hands[q] = state.player_hands[q]
                /\ state'.chips_on_board[mover] = state.chips_on_board[mover]
                /\ state'.sequences = state.sequences ]_vars

\* the last call removed a chip with a one-eyed jack, now on top of the
\* discard pile; the chip's owner, now to move, has a recorded sequence
C22_Witness ==
    /\ Applied
    /\ last_call[1].move.is_removal
    /\ state.sequences[state.current_player] # <<>>
    /\ Len(state.discard_pile) = state.turn_number
    /\ is_one_eyed_jack(state.discard_pile[Len(state.discard_pile)])

\* _check_for_sequences with the candidates restricted to the 5-windows
\* through one cell
RescanThrough(st, player_id, cell) ==
    AddSequences(st, player_id,
                 SelectSeq(new_sequences(st, player_id),
                           LAMBDA sequence : cell \in Range(sequence)),
                 1)

\* C23: every sequence a placement adds to the mover's recorded list holds
\* the cell just placed, and the full rescan of _check_for_sequences records
\* exactly what a rescan of the 5-windows through that cell records.
C23_RescanThroughCell ==
    \A move \in ValidPlacements(state) :
        LET player_id == state.current_player
            cell == <<move.row, move.col>>
            placed == DrawCard(DiscardCard(PlaceChip(state, player_id, move),
                                           player_id, move), player_id)
            before == state.sequences[player_id]
            after == make_move(state, move_history, move).state.sequences[player_id]
        IN  /\ _check_for_sequences(placed, player_id).sequences
                  = RescanThrough(placed, player_id, cell).sequences
            /\ SubSeq(after, 1, Len(before)) = before
            /\ \A i \in (Len(before) + 1) .. Len(after) : cell \in Range(after[i])

\* the player to move has a recorded sequence, a further qualifying window
\* that the overlap rule keeps out of the list, and a placement that records
\* a new sequence
C23_Witness ==
    LET player_id == state.current_player
    IN  /\ state.sequences[player_id] # <<>>
        /\ new_sequences(state, player_id) # <<>>
        /\ \E move \in ValidPlacements(state) :
              Len(make_move(state, move_history, move).state.sequences[player_id])
                  > Len(state.sequences[player_id])

\* the line part of a placement's offensive score: the score less the
\* corner, centre and flexibility bonuses
LinePart(st, player_id, move) ==
    LET offensive == _evaluate_placement_offensive(st, player_id, move)
        center_dist2 == Abs(2 * move.row - 9) + Abs(2 * move.col - 9)
    IN  offensive.score
        - (IF _is_corner_adjacent(move.row, move.col) THEN weights.corner_use ELSE 0)
        - (IF center_dist2 < 6
           THEN (weights.center_bonus * (6 - center_dist2)) \div 2 ELSE 0)
        - (IF offensive.sequence_potential >= 3
           THEN weights.flexibility * offensive.sequence_potential ELSE 0)

\* total_friendly of the window at one offset of one direction through the
\* target cell; 0 when the window leaves the board or holds an opponent chip
WindowFriendly(st, player_id, move, d, offset) ==
    LET w == sequence_cells(move.row, move.col, directions[d][1], directions[d][2], offset)
        player_color == get_chip_color(player_id)
    IN  IF w \notin ValidWindows(move.row, move.col, directions[d][1], directions[d][2])
        THEN 0
        ELSE IF WindowCount(st, w, move.row, move.col, {BLUE, GREEN} \ {player_color}) # 0
        THEN 0
        ELSE WindowCount(st, w, move.row, move.col, {player_color, WILD})

\* the weight of a window with total_friendly = n
TierWeight(n) ==
    IF n = 4 THEN weights.win_sequence + weights.extend_4
    ELSE IF n = 3 THEN weights.extend_3
    ELSE IF n = 2 THEN weights.extend_2
    ELSE IF n >= 1 THEN weights.new_potential
    ELSE 0

\* the highest total_friendly among the windows of one direction
BestFriendly(st, player_id, move, d) ==
    CHOOSE n \in 0 .. 4 :
        /\ \E offset \in -4 .. 0 : WindowFriendly(st, player_id, move, d, offset) = n
        /\ \A offset \in -4 .. 0 : WindowFriendly(st, player_id, move, d, offset) <= n

\* C24 as stated: the line part is the sum of the tier weights of every
\* qualifying window of every direction, one credit per window.
C24_PerWindowSum ==
    \A move \in ValidPlacements(state) :
        LinePart(state, state.current_player, move)
            = SumTo([d \in 1 .. 4 |->
                        SumTo([k \in 1 .. 5 |->
                                  TierWeight(WindowFriendly(state, state.current_player,
                                                            move, d, k - 5))], 5)], 4)

\* C24 amended: the line part is the sum, over the 4 directions, of the tier
\* weight of the direction's best qualifying window, one credit per direction.
C24_PerDirectionBest ==
    \A move \in ValidPlacements(state) :
        LinePart(state, state.current_player, move)
            = SumTo([d \in 1 .. 4 |->
                        TierWeight(BestFriendly(state, state.current_player, move, d))], 4)

\* a placement open to the player to move lies in two qualifying windows of
\* one direction that are of different tiers
C24_Witness ==
    \E move \in ValidPlacements(state) : \E d \in 1 .. 4 : \E o1, o2 \in -4 .. 0 :
        /\ WindowFriendly(state, state.current_player, move, d, o1) >= 1
        /\ WindowFriendly(state, state.current_player, move, d, o2)
              > WindowFriendly(state, state.current_player, move, d, o1)

\* the number of directions in which a placement has an extend-3, extend-2
\* or new-potential event
EventCount(st, player_id, move) ==
    Cardinality({d \in 1 .. 4 : BestFriendly(st, player_id, move, d) \in 1 .. 3})

\* the flexibility part of a placement's offensive score: the score less the
\* line part and the corner and centre bonuses
FlexibilityPart(st, player_id, move) ==
    LET center_dist2 == Abs(2 * move.row - 9) + Abs(2 * move.col - 9)
    IN  _evaluate_placement_offensive(st, player_id, move).score
        - SumTo([d \in 1 .. 4 |-> TierWeight(BestFriendly(st, player_id, move, d))], 4)
        - (IF _is_corner_adjacent(move.row, move.col) THEN weights.corner_use ELSE 0)
        - (IF center_dist2 < 6
           THEN (weights.center_bonus * (6 - center_dist2)) \div 2 ELSE 0)

\* C25: the sequence_potential of a placement is the count of its extend-3,
\* extend-2 and new-potential events, and the flexibility bonus (flexibility
\* times sequence_potential) is part of the offensive score exactly when
\* that count is at least 3.
C25_PotentialIsCount ==
    \A move \in ValidPlacements(state) :
        LET player_id == state.current_player
            offensive == _evaluate_placement_offensive(state, player_id, move)
        IN  /\ offensive.sequence_potential = EventCount(state, player_id, move)
            /\ FlexibilityPart(state, player_id, move)
                  = IF EventCount(state, player_id, move) >= 3
                    THEN weights.flexibility * offensive.sequence_potential
                    ELSE 0

\* C26: every evaluated move has score = offensive_score + defensive_score
\* - penalty, the penalty being jack_save when the card is a jack of either
\* kind and more than 50 cards remain in the deck and 0 otherwise; a removal
\* has offensive_score 0 and creates_sequence false.
C26_TotalScore ==
    LET evaluations == Evaluations(state, state.current_player)
    IN  \A i \in 1 .. Len(evaluations) :
            LET e == evaluations[i]
                penalty == IF /\ (is_one_eyed_jack(e.move.card) \/ is_two_eyed_jack(e.move.card))
                              /\ Len(state.deck) > 50
                           THEN weights.jack_save ELSE 0
            IN  /\ e.score = e.offensive_score + e.defensive_score - penalty
                /\ e.move.is_removal => (e.offensive_score = 0 /\ ~ e.creates_sequence)

\* with 50 cards or fewer left in the deck, a removal (a one-eyed jack, not
\* penalised any more) and a placement of a plain card are both evaluated
C26_Witness ==
    LET evaluations == Evaluations(state, state.current_player)
    IN  /\ Len(state.deck) <= 50
        /\ \E i \in 1 .. Len(evaluations) : evaluations[i].move.is_removal
        /\ \E i \in 1 .. Len(evaluations) : ~ is_jack(evaluations[i].move.card)

\* C28: is_game_over() is true exactly when a winner is set or no player has
\* a valid move, and get_winner() is the winner field of the state.
C28_GameOver ==
    /\ is_game_over(state)
          <=> (\/ state.winner # None
               \/ \A p \in Players : get_valid_moves(state, p) = <<>>)
    /\ get_winner(state) = state.winner

\* without a winner, the player to move has no valid move while the other
\* player has one: the game is not over
C28_Witness ==
    /\ get_winner(state) = None
    /\ get_valid_moves(state, state.current_player) = <<>>
    /\ \E p \in Players : get_valid_moves(state, p) # <<>>
    /\ ~ is_game_over(state)

\* C29: make_move accepts every move that get_valid_moves returns for the
\* player to move, so each call of the simulation loop is applied: the last
\* call returned True and its move is the last entry of the engine's
\* move history, which has one entry per turn played.
C29_ValidMovesAccepted ==
    /\ \A move \in ValidMoves : make_move(state, move_history, move).ok
    /\ last_call # <<>> =>
          /\ last_call[1].ok
          /\ Len(move_history) = state.turn_number
          /\ move_history[Len(move_history)].move = last_call[1].move

\* after an applied call, the player to move is offered a removal as well as
\* a placement
C29_Witness ==
    /\ Applied
    /\ \E move \in ValidMoves : move.is_removal
    /\ \E move \in ValidMoves : ~ move.is_removal

\* the number of copies of a card in the deck, the hands and the discard pile
CopiesInGame(st, card) ==
    Count(st.deck, card) + Count(st.discard_pile, card)
        + SumTo([k \in 1 .. num_players |-> Count(st.player_hands[k - 1], card)],
                num_players)

\* C30: the deck, the hands and the discard pile together hold each of the
\* 52 rank/suit pairs exactly twice; a successful move puts exactly one card
\* of the mover's hand on the discard pile and takes at most one card, the
\* last of the deck, into the mover's hand, and touches no other hand.
C30_CardConservation ==
    /\ [](/\ Cardinality(Range(FullDeck)) = 52
          /\ CardsInGame(state) = Range(FullDeck)
          /\ \A card \in Range(FullDeck) : CopiesInGame(state, card) = 2)
    /\ [][SuccessfulMove =>
            LET player_id == state.current_player
                played == last_call'[1].move.card
                n == Len(state.deck)
                drawn == IF n > 0 THEN {state.deck[n]} ELSE {}
                Delta(card) == (IF card \in drawn THEN 1 ELSE 0)
                               - (IF card = played THEN 1 ELSE 0)
            IN  /\ Count(state.player_hands[player_id], played) >= 1
                /\ state'.discard_pile = Append(state.discard_pile, played)
                /\ state'.deck = SubSeq(state.deck, 1, n - Cardinality(drawn))
                /\ \A card \in Range(FullDeck) :
                      Count(state'.player_hands[player_id], card)
                          = Count(state.player_hands[player_id], card) + Delta(card)
                /\ \A p \in Players \ {player_id} :
                      state'.player_hands[p] = state.player_hands[p]
         ]_vars

\* after an applied call, the player who made it still holds a copy of the
\* card played: the hand held both copies, or the draw brought the second
C30_Witness ==
    /\ Applied
    /\ \E p \in Players :
          /\ p # state.current_player
          /\ last_call[1].move.card \in Range(state.player_hands[p])

\* C31: every successful move appends exactly one card to the discard pile
\* and no step takes a card off it, so turn_number, the length of the discard
\* pile and the length of the move history are equal and at most 104 in every
\* reachable state; the loop of run_single_game never reaches its cutoff of
\* max_turns turns.
C31_Termination ==
    /\ [](/\ state.turn_number = Len(state.discard_pile)
          /\ Len(state.discard_pile) = Len(move_history)
          /\ state.turn_number <= 104
          /\ state.turn_number < max_turns)
    /\ [][/\ Len(state'.discard_pile) >= Len(state.discard_pile)
          /\ SubSeq(state'.discard_pile, 1, Len(state.discard_pile)) = state.discard_pile
          /\ SuccessfulMove =>
                state'.discard_pile = Append(state.discard_pile, last_call'[1].move.card)
         ]_vars

\* the loop has stopped after 100 turns with the deck used up: no winner, and
\* the bot of the player to move has no move to return
C31_Witness ==
    /\ Applied
    /\ state.deck = <<>>
    /\ state.turn_number >= 100
    /\ \E i \in 1 .. Len(move_history) : move_history[i].move.is_removal
    /\ get_move_with_analysis(state, state.current_player) = <<>>

\* C32: whenever make_move on a placement open to the player to move adds a
\* sequence to the mover's recorded list, _evaluate_move on the state before
\* the move reports creates_sequence for it and its offensive score holds
\* the win_sequence weight (no sum of the other weights reaches it).
C32_NewSequenceForeseen ==
    \A move \in ValidPlacements(state) :
        LET player_id == state.current_player
            before == state.sequences[player_id]
            after == make_move(state, move_history, move).state.sequences[player_id]
            evaluation == _evaluate_move(state, player_id, move)
        IN  Len(after) > Len(before) =>
                /\ evaluation.creates_sequence
                /\ evaluation.offensive_score >= weights.win_sequence
                /\ LinePart(state, player_id, move) >= weights.win_sequence + weights.extend_4

\* a placement open to the player to move records a sequence that runs
\* through a Wild corner
C32_Witness ==
    \E move \in ValidPlacements(state) :
        LET player_id == state.current_player
            before == state.sequences[player_id]
            after == make_move(state, move_history, move).state.sequences[player_id]
        IN  /\ Len(after) > Len(before)
            /\ Range(after[Len(after)]) \cap Corners # {}

\* C33: in a game driven by the loop of run_single_game every step keeps the
\* entries of each recorded sequence list and only appends to it; no step is
\* taken from a state whose winner is set, so the winner never changes once
\* set, and the move that set it, made by the winner, is the last of the
\* move history.
C33_WinnerFinal ==
    /\ [][\A p \in Players :
             /\ Len(state'.sequences[p]) >= Len(state.sequences[p])
             /\ SubSeq(state'.sequences[p], 1, Len(state.sequences[p])) = state.sequences[p]
         ]_vars
    /\ [][state.winner = None]_vars
    /\ [][state.winner # None => state'.winner = state.winner]_vars
    /\ [](state.winner # None =>
             /\ Applied
             /\ move_history[Len(move_history)].move = last_call[1].move
             /\ move_history[Len(move_history)].player = state.winner
             /\ ~ move_history[Len(move_history)].move.is_removal
             /\ \A i \in 1 .. (Len(move_history) - 1) :
                    move_history[i].turn < move_history[Len(move_history)].turn)

\* the loop has stopped on a win: the winner is set by the last move while the
\* player to move could still play
C33_Witness ==
    /\ state.winner # None
    /\ is_game_over(state)
    /\ get_valid_moves(state, state.current_player) # <<>>
    /\ \E p \in Players : p # state.winner /\ state.sequences[p] # <<>>

====
